---- MODULE Spec2Model ----
(***************************************************************************)
(* A model of nanobot/channels/qq.py: the QQ channel adapter (QQChannel).  *)
(*                                                                         *)
(* Strings are modelled as sequences of tokens (one-character strings and  *)
(* whole placeholder texts), so that str.strip() and "\n".join() are       *)
(* computed and not assumed.  Inbound message ids are natural numbers:     *)
(* the code only compares them for equality.                               *)
(***************************************************************************)
EXTENDS Integers, Sequences, FiniteSets, TLC

VARIABLES
    qq_available,   \* module constant QQ_AVAILABLE (the SDK import succeeded)
    config,         \* self.config: which settings are non-empty
    running,        \* self._running, False until start() sets it
    client,         \* self._client is not None
    loops,          \* one entry per start() call that reached _run_bot
    processed_ids,  \* self._processed_ids, a deque(maxlen=1000)
    reply_seq,      \* self._reply_seq, msg_id -> last msg_seq handed out
    seq_log,        \* per argument, the values _next_msg_seq returned
    forwarded,      \* ids passed to self._handle_message, in call order
    handled,        \* arguments and fate of the latest _on_message call
    inflight,       \* _on_message handlers suspended at an await
    calls,          \* platform calls of the latest send(), in call order
    sent,           \* fate of the latest send() call
    posts,          \* per reply target, the msg_seq of every platform post
    started,        \* fate of the latest start() call
    stopped,        \* fate of the latest stop() call
    issued          \* how many message ids the platform has issued so far

vars == <<qq_available, config, running, client, loops, processed_ids,
          reply_seq, seq_log, forwarded, handled, inflight, calls, sent, posts,
          started, stopped, issued>>

lifeVars == <<running, client, loops, started, stopped>>
sendVars == <<reply_seq, seq_log, calls, sent, posts>>
inVars   == <<processed_ids, forwarded, handled, inflight, issued>>
envVars  == <<qq_available, config>>

-----------------------------------------------------------------------------
(* Bounds of the model *)

\* events delivered beyond the capacity of the dedup buffer
MaxExtra == 3

\* start() calls that reach _run_bot
MaxStarts == 2

\* connection attempts of one _run_bot loop
MaxAttempts == 3

\* media items of one outbound message
MaxMedia == 2

\* send() calls replying to one message id
MaxReplies == 2

\* message ids the platform issues, where every event shape is delivered
MaxIds == 2

-----------------------------------------------------------------------------
(* Strings *)

Range(s) == {s[i] : i \in 1..Len(s)}

\* the whitespace tokens str.strip() removes
Whitespace == {" ", "\n"}

RECURSIVE LStrip(_)
LStrip(s) ==
    IF s # <<>> /\ Head(s) \in Whitespace THEN LStrip(Tail(s)) ELSE s

RECURSIVE RStrip(_)
RStrip(s) ==
    IF s # <<>> /\ s[Len(s)] \in Whitespace
    THEN RStrip(SubSeq(s, 1, Len(s) - 1))
    ELSE s

\* str.strip()
Strip(s) == RStrip(LStrip(s))

\* "\n".join(parts), parts being a sequence of strings
RECURSIVE Join(_)
Join(parts) ==
    IF parts = <<>> THEN <<>>
    ELSE IF Len(parts) = 1 THEN parts[1]
    ELSE parts[1] \o <<"\n">> \o Join(Tail(parts))

-----------------------------------------------------------------------------
(* The dedup buffer: collections.deque(maxlen=1000) *)

maxlen == 1000

\* a deque that drops its right end when full
DequeAppendDropNewest(buf, x) ==
    IF Len(buf) >= maxlen
    THEN Append(SubSeq(buf, 1, Len(buf) - 1), x)
    ELSE Append(buf, x)

\* deque.append on a deque with maxlen: a full deque drops its left end
DequeAppend(buf, x) ==
    IF Len(buf) >= maxlen THEN Append(Tail(buf), x) ELSE Append(buf, x)

\* a membership test that looks at the newest entry only
IsDuplicateOfNewest(buf, id) == buf # <<>> /\ buf[Len(buf)] = id

\* "data.id in self._processed_ids", line 254
IsDuplicate(buf, id) == id \in Range(buf)

-----------------------------------------------------------------------------
(* _download_attachment and _on_message *)

NoAttachmentName == "download failed"

\* Path(filename_hint.strip()).suffix, the hint being a token sequence whose
\* last token may be a file extension
Suffix(hint) ==
    LET h == Strip(hint)
    IN  IF h # <<>> /\ h[Len(h)] \in {".png", ".mp4", ".silk", ".txt"}
        THEN h[Len(h)] ELSE ""

\* the local file _download_attachment writes: media_dir / qq_<mid>_<idx><ext>
DownloadPath(hint, message_id, idx) ==
    LET ext == IF Suffix(hint) # "" THEN Suffix(hint) ELSE ".bin"
    IN  [dir  |-> "~/.nanobot/media",
         name |-> "qq_" \o ToString(message_id) \o "_" \o ToString(idx) \o ext]

\* _download_attachment(url, hint, message_id, idx): the local path, or
\* NoPath when the url is empty, the response is not a success or the
\* request raises.  ok says whether the HTTP request succeeds.
NoPath == [dir |-> "", name |-> ""]

DownloadAttachment(url, hint, message_id, idx, ok) ==
    IF url = <<>> \/ ~ok THEN NoPath ELSE DownloadPath(hint, message_id, idx)

Placeholder(name) == <<"[attachment: " \o name \o "]">>

\* an attachment loop that says nothing about a failed download
RECURSIVE AttachmentLoopSilent(_, _, _, _)
AttachmentLoopSilent(id, atts, outs, i) ==
    IF i > Len(atts) THEN [parts |-> <<>>, media |-> <<>>]
    ELSE
      LET att  == atts[i]
          rest == AttachmentLoopSilent(id, atts, outs, i + 1)
          fp   == DownloadAttachment(Strip(att.url), att.filename, id, i - 1,
                                     outs[i] = "ok")
      IN  IF outs[i] # "raise" /\ att.url_is_str /\ Strip(att.url) # <<>>
             /\ fp # NoPath
          THEN [parts |-> <<Placeholder(fp.name)>> \o rest.parts,
                media |-> <<fp>> \o rest.media]
          ELSE rest

\* The attachment loop of _on_message from attachment i on: the content
\* parts and media paths it appends.  outs[i] is what happens to attachment
\* i: "ok" (downloaded), "fail" (no file), "raise" (an exception inside the
\* loop body, caught by the inner except).
RECURSIVE AttachmentLoop(_, _, _, _)
AttachmentLoop(id, atts, outs, i) ==
    IF i > Len(atts) THEN [parts |-> <<>>, media |-> <<>>]
    ELSE
      LET att  == atts[i]
          rest == AttachmentLoop(id, atts, outs, i + 1)
          fp   == DownloadAttachment(Strip(att.url), att.filename, id, i - 1,
                                     outs[i] = "ok")
      IN  IF outs[i] = "raise"
          THEN [parts |-> <<Placeholder(NoAttachmentName)>> \o rest.parts,
                media |-> rest.media]
          ELSE IF att.url_is_str /\ Strip(att.url) # <<>>
          THEN IF fp # NoPath
               THEN [parts |-> <<Placeholder(fp.name)>> \o rest.parts,
                     media |-> <<fp>> \o rest.media]
               ELSE [parts |-> <<Placeholder(NoAttachmentName)>> \o rest.parts,
                     media |-> rest.media]
          ELSE rest

\* content_parts and media_paths as _on_message builds them (lines 260-280)
Normalize(ev, outs) ==
    LET content == Strip(ev.content)
        loop    == AttachmentLoop(ev.id, ev.attachments, outs, 1)
    IN  [parts |-> (IF content # <<>> THEN <<content>> ELSE <<>>) \o loop.parts,
         media |-> loop.media]

\* content_out, line 284
ContentOut(parts) ==
    IF Strip(Join(parts)) # <<>> THEN Strip(Join(parts))
    ELSE <<"[empty message]">>

\* Events of the SDK
Attachment(url, is_str, filename) ==
    [url |-> url, url_is_str |-> is_str, filename |-> filename]

Event(id, content, atts, malformed) ==
    [id |-> id, content |-> content, attachments |-> atts,
     malformed |-> malformed]

\* handled: the event of the call (ev) and the fates of its attachments
\* (outs, empty when the call did not get to the attachments), how the call
\* ended (outcome), and the id, content and media it passed to
\* self._handle_message
NoCall == [ev |-> Event(0, <<>>, <<>>, "no"), outs |-> <<>>,
           id |-> 0, outcome |-> "none", content |-> <<>>, media |-> <<>>,
           escaped |-> FALSE]

\* a handler without its outer try/except
OnMessageUncaught(id, where) ==
    [NoCall EXCEPT !.id = id, !.outcome = where, !.escaped = TRUE]

\* What the outer "except Exception" of _on_message does with an exception
\* raised in its body: it is logged and the handler returns.
OnMessageCaught(id, where) ==
    [NoCall EXCEPT !.id = id, !.outcome = where]

\* the record of a call with the event it was made for
Seen(h, ev, outs) == [h EXCEPT !.ev = ev, !.outs = outs]

\* a handler that records the id only once the bus has taken the event
OnMessageRecordLate(ev, outs, bus_ok) ==
  /\ UNCHANGED inflight
  /\
    IF ev.malformed = "id"
    THEN /\ handled' = Seen(OnMessageCaught(0, "malformed"), ev, <<>>)
         /\ UNCHANGED <<processed_ids, forwarded>>
    ELSE IF IsDuplicate(processed_ids, ev.id)
    THEN /\ handled' = Seen([NoCall EXCEPT !.id = ev.id,
                                           !.outcome = "duplicate"], ev, <<>>)
         /\ UNCHANGED <<processed_ids, forwarded>>
    ELSE IF ev.malformed = "author"
    THEN /\ handled' = Seen(OnMessageCaught(ev.id, "malformed"), ev, <<>>)
         /\ UNCHANGED <<processed_ids, forwarded>>
    ELSE
      LET n == Normalize(ev, outs)
      IN  IF n.parts = <<>> /\ n.media = <<>>
          THEN /\ handled' = Seen([NoCall EXCEPT !.id = ev.id,
                                                 !.outcome = "empty"],
                                  ev, outs)
               /\ UNCHANGED <<processed_ids, forwarded>>
          ELSE /\ forwarded' = Append(forwarded, ev.id)
               /\ processed_ids' = IF bus_ok
                                   THEN DequeAppend(processed_ids, ev.id)
                                   ELSE processed_ids
               /\ handled' =
                    Seen([(IF bus_ok
                           THEN [NoCall EXCEPT !.id = ev.id,
                                               !.outcome = "forwarded"]
                           ELSE OnMessageCaught(ev.id, "handoff failed"))
                            EXCEPT !.content = ContentOut(n.parts),
                                   !.media = n.media],
                         ev, outs)

\* _on_message(data), run to completion.  ev is the event, outs the fate
\* of each attachment, bus_ok whether self._handle_message returns.
\* ev.malformed says which attribute access raises: "id" (data.id),
\* "author" (data.author) or "no".
OnMessage(ev, outs, bus_ok) ==
  /\ UNCHANGED inflight
  /\
    IF ev.malformed = "id"
    THEN /\ handled' = Seen(OnMessageCaught(0, "malformed"), ev, <<>>)
         /\ UNCHANGED <<processed_ids, forwarded>>
    ELSE IF IsDuplicate(processed_ids, ev.id)
    THEN /\ handled' = Seen([NoCall EXCEPT !.id = ev.id,
                                           !.outcome = "duplicate"], ev, <<>>)
         /\ UNCHANGED <<processed_ids, forwarded>>
    ELSE
      /\ processed_ids' = DequeAppend(processed_ids, ev.id)
      /\ IF ev.malformed = "author"
         THEN /\ handled' = Seen(OnMessageCaught(ev.id, "malformed"), ev, <<>>)
              /\ UNCHANGED forwarded
         ELSE
           LET n == Normalize(ev, outs)
           IN  IF n.parts = <<>> /\ n.media = <<>>
               THEN /\ handled' = Seen([NoCall EXCEPT !.id = ev.id,
                                                      !.outcome = "empty"],
                                       ev, outs)
                    /\ UNCHANGED forwarded
               ELSE /\ forwarded' = Append(forwarded, ev.id)
                    /\ handled' =
                         Seen([(IF bus_ok
                                THEN [NoCall EXCEPT !.id = ev.id,
                                                    !.outcome = "forwarded"]
                                ELSE OnMessageCaught(ev.id, "handoff failed"))
                                 EXCEPT !.content = ContentOut(n.parts),
                                        !.media = n.media],
                              ev, outs)

-----------------------------------------------------------------------------
(* The state after QQChannel.__init__ *)

EmptyDict == [k \in {} |-> 0]

NoMessage == [content |-> <<>>, media |-> <<>>, message_id |-> [is_str |-> FALSE, s |-> <<>>]]

NotSent == [msg |-> NoMessage, result |-> "none"]

NotStopped ==
    [called |-> FALSE, closed |-> FALSE, close_failed |-> FALSE,
     escaped |-> FALSE]

\* QQConfig: each setting is a string, here empty, blank or set
Configs ==
    [app_id : {<<>>, <<"id">>},
     secret : {<<>>, <<"key">>},
     media_upload_command : {<<>>, <<" ">>, <<"upload">>}]

Init ==
    /\ qq_available \in BOOLEAN
    /\ config \in Configs
    /\ running = FALSE
    /\ client = FALSE
    /\ loops = <<>>
    /\ processed_ids = <<>>
    /\ reply_seq = EmptyDict
    /\ forwarded = <<>>
    /\ handled = NoCall
    /\ inflight = <<>>
    /\ seq_log = EmptyDict
    /\ calls = <<>>
    /\ sent = NotSent
    /\ posts = EmptyDict
    /\ started = "none"
    /\ stopped = NotStopped
    /\ issued = 0

\* the state after construction with the SDK and a complete configuration
InitConfigured ==
    /\ Init
    /\ qq_available
    /\ config = [app_id |-> <<"id">>, secret |-> <<"key">>,
                 media_upload_command |-> <<"upload">>]


-----------------------------------------------------------------------------
(* start, _run_bot, stop *)

\* a check that forgets the secret
CredentialsPresentAppIdOnly(cfg) == cfg.app_id # <<>>

\* "not self.config.app_id or not self.config.secret" is false, line 144
CredentialsPresent(cfg) == cfg.app_id # <<>> /\ cfg.secret # <<>>

\* The _run_bot loop of one start() call: where it is, and how many
\* connection attempts, failed attempts and 5-second waits it has made.
Loop(pc, attempts, failures, waits) ==
    [pc |-> pc, attempts |-> attempts, failures |-> failures, waits |-> waits]

\* start(): lines 140-153, and _run_bot up to its first await, the first
\* self._client.start(...)
Start ==
    /\ IF ~qq_available
       THEN /\ started' = "no sdk"
            /\ UNCHANGED <<running, client, loops>>
       ELSE IF ~CredentialsPresent(config)
       THEN /\ started' = "no credentials"
            /\ UNCHANGED <<running, client, loops>>
       ELSE /\ Len(loops) < MaxStarts
            /\ started' = "running"
            /\ running' = TRUE
            /\ client' = TRUE
            /\ loops' = Append(loops, Loop("connecting", 1, 0, 0))
    /\ UNCHANGED <<envVars, sendVars, inVars, stopped>>

\* a loop that gives up after a failed attempt
AfterAttemptGivingUp(l, raised, flag) ==
    IF flag /\ ~raised
    THEN [l EXCEPT !.pc = "sleeping", !.waits = @ + 1]
    ELSE [l EXCEPT !.pc = "returned",
                   !.failures = IF raised THEN @ + 1 ELSE @]

\* _run_bot, lines 160-164: self._client.start(...) has returned or raised
\* (the exception is logged); with the flag set the loop goes to sleep,
\* otherwise the while test fails and _run_bot returns.
AfterAttempt(l, raised, flag) ==
    LET m == [l EXCEPT !.failures = IF raised THEN @ + 1 ELSE @]
    IN  IF flag THEN [m EXCEPT !.pc = "sleeping", !.waits = @ + 1]
        ELSE [m EXCEPT !.pc = "returned"]

\* a loop that reconnects whatever the flag says
AfterSleepIgnoringFlag(l, flag) ==
    [l EXCEPT !.pc = "connecting", !.attempts = @ + 1]

\* _run_bot, lines 164 and 157-159: asyncio.sleep(5) has returned; with the
\* flag set the loop starts the next attempt, otherwise _run_bot returns.
AfterSleep(l, flag) ==
    IF flag THEN [l EXCEPT !.pc = "connecting", !.attempts = @ + 1]
    ELSE [l EXCEPT !.pc = "returned"]

ConnectReturns(t) ==
    \E raised \in BOOLEAN :
      /\ t \in 1..Len(loops)
      /\ loops[t].pc = "connecting"
      /\ loops' = [loops EXCEPT ![t] = AfterAttempt(@, raised, running)]
      /\ UNCHANGED <<envVars, sendVars, inVars, running, client, started, stopped>>

WakeUp(t) ==
    /\ t \in 1..Len(loops)
    /\ loops[t].pc = "sleeping"
    /\ running => loops[t].attempts < MaxAttempts
    /\ loops' = [loops EXCEPT ![t] = AfterSleep(@, running)]
    /\ UNCHANGED <<envVars, sendVars, inVars, running, client, started, stopped>>

\* a stop() without the try around close()
StopUnguarded(had_client, close_ok) ==
    [called |-> TRUE, closed |-> had_client,
     close_failed |-> had_client /\ ~close_ok,
     escaped |-> had_client /\ ~close_ok]

\* stop() after clearing the flag, lines 169-174: close() is awaited when
\* there is a client, and "except Exception: pass" swallows its failure
StopClose(had_client, close_ok) ==
    [called |-> TRUE, closed |-> had_client,
     close_failed |-> had_client /\ ~close_ok,
     escaped |-> FALSE]

\* stop(), lines 168-174; close_ok says whether self._client.close() returns
Stop ==
    \E close_ok \in BOOLEAN :
      /\ running' = FALSE
      /\ stopped' = StopClose(client, close_ok)
      /\ UNCHANGED <<envVars, sendVars, inVars, client, loops, started>>

NextRun ==
    \/ Start
    \/ Stop
    \/ \E t \in 1..MaxStarts : ConnectReturns(t)
    \/ \E t \in 1..MaxStarts : WakeUp(t)

SpecRun == Init /\ [][NextRun]_vars

\* The loops under the fairness that C6 assumes: the in-flight
\* client.start() and the sleep each return.  The configuration is
\* complete: a start() that fails fast creates no loop.
SpecRunFair ==
    /\ InitConfigured
    /\ [][NextRun]_vars
    /\ \A t \in 1..MaxStarts : WF_vars(ConnectReturns(t)) /\ WF_vars(WakeUp(t))

-----------------------------------------------------------------------------
(* send *)

\* str.lower(), on the tokens that have upper-case letters
Lower(tok) ==
    CASE tok = "HTTP://"  -> "http://"
      [] tok = "HTTPS://" -> "https://"
      [] tok = ".PNG"     -> ".png"
      [] OTHER            -> tok

\* a test that misses upper-case schemes and leading blanks
IsUrlExact(value) ==
    value # <<>> /\ value[1] \in {"http://", "https://"}

\* _is_url, lines 69-71
IsUrl(value) ==
    LET v == Strip(value)
    IN  v # <<>> /\ Lower(v[1]) \in {"http://", "https://"}

\* the local files that exist (os.path.isfile)
Files ==
    { <<"/tmp/", "a", ".PNG">>, <<"/tmp/", "a", ".txt">> }

Extensions == {".png", ".PNG", ".mp4", ".silk", ".txt"}

\* Path(p).suffix.lower()
PathSuffix(p) ==
    IF p # <<>> /\ p[Len(p)] \in Extensions THEN Lower(p[Len(p)]) ELSE ""

IMAGE_EXTS == {".png", ".jpg", ".jpeg", ".gif", ".bmp", ".webp"}

\* the QQ file_type of an extension, lines 217-222; 0 when there is none
FileType(ext) ==
    IF ext \in IMAGE_EXTS THEN 1
    ELSE IF ext = ".mp4" THEN 2
    ELSE IF ext = ".silk" THEN 3
    ELSE 0

FallbackUnsupported == <<"(QQ attachment restricted: file type cannot be sent)">>
FallbackNoUrl == <<"(QQ attachment failed: a public URL is required)">>

\* the URL the upload command prints for a file
UploadedUrl(p) == <<"https://", "cdn">> \o p

\* One entry of the call log.  item is the position in msg.media of the
\* media item being sent, 0 for the message's own text.  msg_id = <<>> and
\* msg_seq = 0 stand for kwargs without msg_id and msg_seq.
Call(api, item, msg_type, content, url, file_type, msg_id, msg_seq, raised) ==
    [api |-> api, item |-> item, msg_type |-> msg_type, content |-> content,
     url |-> url, file_type |-> file_type, msg_id |-> msg_id,
     msg_seq |-> msg_seq, raised |-> raised]

PlatformApis == {"post_c2c_message", "post_c2c_file"}

RECURSIVE ApiCount(_)
ApiCount(cs) ==
    IF cs = <<>> THEN 0
    ELSE (IF Head(cs).api \in PlatformApis THEN 1 ELSE 0) + ApiCount(Tail(cs))

\* the message_id of the metadata taken as it comes
ReplyToUnchecked(message_id) == message_id.s

\* the value of reply_to_msg_id, lines 185-187; <<>> stands for None
ReplyTo(message_id) ==
    IF message_id.is_str /\ Strip(message_id.s) # <<>>
    THEN message_id.s ELSE <<>>

DictGet(d, k, default) == IF k \in DOMAIN d THEN d[k] ELSE default

DictSet(d, k, v) == [x \in DOMAIN d \cup {k} |-> IF x = k THEN v ELSE d[x]]

\* a table that keeps the latest message id only
NextMsgSeqForgetful(table, reply_to) ==
    IF reply_to = <<>> THEN [table |-> table, value |-> 0]
    ELSE LET nxt == DictGet(table, reply_to, 0) + 1
         IN  [table |-> DictSet(EmptyDict, reply_to, nxt), value |-> nxt]

\* one counter shared by all message ids
NextMsgSeqShared(table, reply_to) ==
    IF reply_to = <<>> THEN [table |-> table, value |-> 0]
    ELSE LET last == IF DOMAIN table = {} THEN 0
                     ELSE CHOOSE m \in {table[k] : k \in DOMAIN table} :
                            \A k \in DOMAIN table : table[k] <= m
         IN  [table |-> DictSet(table, reply_to, last + 1), value |-> last + 1]

\* _next_msg_seq, lines 73-80: the table after the call and the value
\* returned, 0 standing for None
NextMsgSeq(table, reply_to) ==
    IF reply_to = <<>> THEN [table |-> table, value |-> 0]
    ELSE LET nxt == DictGet(table, reply_to, 0) + 1
         IN  [table |-> DictSet(table, reply_to, nxt), value |-> nxt]

\* The progress of one send(): st.calls the calls made, st.seq the local
\* msg_seq, st.failed whether a call has raised (nothing runs after it).
\* fail_at is the number of the platform call that raises, 0 for none.

\* a post that attaches msg_seq and does not advance it
PostMessageSameSeq(st, item, msg_type, content, url, reply_to, fail_at) ==
    LET reply  == reply_to # <<>> /\ st.seq # 0
        raised == ApiCount(st.calls) + 1 = fail_at
    IN  [calls  |-> Append(st.calls,
                      Call("post_c2c_message", item, msg_type, content, url, 0,
                           IF reply THEN reply_to ELSE <<>>,
                           IF reply THEN st.seq ELSE 0, raised)),
         seq    |-> st.seq,
         failed |-> raised]

\* self._client.api.post_c2c_message(**kwargs), lines 198-202 and 235-239
PostMessage(st, item, msg_type, content, url, reply_to, fail_at) ==
    LET reply  == reply_to # <<>> /\ st.seq # 0
        raised == ApiCount(st.calls) + 1 = fail_at
    IN  [calls  |-> Append(st.calls,
                      Call("post_c2c_message", item, msg_type, content, url, 0,
                           IF reply THEN reply_to ELSE <<>>,
                           IF reply THEN st.seq ELSE 0, raised)),
         seq    |-> IF reply THEN st.seq + 1 ELSE st.seq,
         failed |-> raised]

\* _send_text, lines 193-202
SendText(st, item, text, reply_to, fail_at) ==
    IF Strip(text) = <<>> THEN st
    ELSE PostMessage(st, item, 0, Strip(text), <<>>, reply_to, fail_at)

\* lines 233-239: post_c2c_file, then the media message
PostFile(st, item, url, ft, reply_to, fail_at) ==
    LET raised == ApiCount(st.calls) + 1 = fail_at
        filed  == [st EXCEPT
                     !.calls = Append(@, Call("post_c2c_file", item, 0, <<>>,
                                              url, ft, <<>>, 0, raised)),
                     !.failed = raised]
    IN  IF raised THEN filed
        ELSE PostMessage(filed, item, 7, <<>>, url, reply_to, fail_at)

\* a test that takes a blank command for a command
UploadCommandSetUnstripped(cfg) == cfg.media_upload_command # <<>>

\* _upload_to_public_url_sync, lines 89-113: with no command there is no
\* URL; otherwise the command runs and prints a URL (up_ok) or does not.
UploadCommandSet(cfg) == Strip(cfg.media_upload_command) # <<>>

UploadToPublicUrl(cfg, p, up_ok) ==
    IF UploadCommandSet(cfg) /\ up_ok THEN UploadedUrl(p) ELSE <<>>

\* _send_media_path, lines 204-239
SendMediaPath(st, item, path, cfg, up_ok, reply_to, fail_at) ==
    LET p == Strip(path)
    IN  IF p = <<>> THEN st
        ELSE IF IsUrl(p) THEN PostFile(st, item, p, 1, reply_to, fail_at)
        ELSE IF p \notin Files THEN st
        ELSE IF FileType(PathSuffix(p)) = 0
        THEN SendText(st, item, FallbackUnsupported, reply_to, fail_at)
        ELSE
          LET url == UploadToPublicUrl(cfg, p, up_ok)
              ran == IF UploadCommandSet(cfg)
                     THEN [st EXCEPT !.calls =
                             Append(@, Call("upload_command", item, 0, <<>>, p,
                                            0, <<>>, 0, FALSE))]
                     ELSE st
          IN  IF url = <<>>
              THEN SendText(ran, item, FallbackNoUrl, reply_to, fail_at)
              ELSE PostFile(ran, item, url, FileType(PathSuffix(p)),
                            reply_to, fail_at)

\* a media loop that goes on to the next item after an exception
RECURSIVE MediaLoopPastFailure(_, _, _, _, _, _, _)
MediaLoopPastFailure(st, media, i, cfg, ups, reply_to, fail_at) ==
    IF i > Len(media) THEN st
    ELSE MediaLoopPastFailure(
           SendMediaPath(st, i, media[i], cfg, i \in ups, reply_to, fail_at),
           media, i + 1, cfg, ups, reply_to, fail_at)

\* "for p in msg.media: await _send_media_path(p)", from item i on; an
\* exception ends the loop
RECURSIVE MediaLoop(_, _, _, _, _, _, _)
MediaLoop(st, media, i, cfg, ups, reply_to, fail_at) ==
    IF i > Len(media) \/ st.failed THEN st
    ELSE MediaLoop(SendMediaPath(st, i, media[i], cfg, i \in ups, reply_to, fail_at),
                   media, i + 1, cfg, ups, reply_to, fail_at)

\* a send() that posts the text before the media
SendBodyTextFirst(st, msg, cfg, ups, reply_to, fail_at) ==
    LET texted == SendText(st, 0, msg.content, reply_to, fail_at)
    IN  MediaLoop(texted, msg.media, 1, cfg, ups, reply_to, fail_at)

\* lines 241-246: media first, then the text
SendBody(st, msg, cfg, ups, reply_to, fail_at) ==
    LET after == MediaLoop(st, msg.media, 1, cfg, ups, reply_to, fail_at)
    IN  IF after.failed THEN after
        ELSE SendText(after, 0, msg.content, reply_to, fail_at)

\* a send() without its try/except
SendUncaught(st) == IF st.failed THEN "raised" ELSE "returned"

\* lines 247-248: an exception of the body is logged, send() returns
SendCaught(st) == "returned"

\* the msg_seq values of the posts of cs that reply to id, in call order
RECURSIVE SeqsOf(_, _)
SeqsOf(cs, id) ==
    IF cs = <<>> THEN <<>>
    ELSE (IF Head(cs).api = "post_c2c_message" /\ Head(cs).msg_id = id
          THEN <<Head(cs).msg_seq>> ELSE <<>>) \o SeqsOf(Tail(cs), id)

\* the log of _next_msg_seq calls after one more call: every value returned
\* for a message id, and the latest value returned for None (key <<>>)
LogSeq(log, reply_to, value) ==
    IF reply_to = <<>> THEN DictSet(log, reply_to, <<value>>)
    ELSE DictSet(log, reply_to, Append(DictGet(log, reply_to, <<>>), value))

\* a test for an empty message that does not strip the content
NothingToSendUnstripped(msg) == msg.content = <<>> /\ msg.media = <<>>

\* line 181: "not (msg.content or '').strip() and not msg.media"
NothingToSend(msg) == Strip(msg.content) = <<>> /\ msg.media = <<>>

\* send(msg); ups are the media items for which the upload command prints
\* a URL, fail_at the platform call that raises
Send(msg, ups, fail_at) ==
    /\ IF ~client
       THEN /\ sent' = [msg |-> msg, result |-> "no client"]
            /\ calls' = <<>>
            /\ UNCHANGED <<reply_seq, seq_log, posts>>
       ELSE IF NothingToSend(msg)
       THEN /\ sent' = [msg |-> msg, result |-> "nothing to send"]
            /\ calls' = <<>>
            /\ UNCHANGED <<reply_seq, seq_log, posts>>
       ELSE
         LET reply_to == ReplyTo(msg.message_id)
             next     == NextMsgSeq(reply_seq, reply_to)
             st       == SendBody([calls |-> <<>>, seq |-> next.value,
                                   failed |-> FALSE],
                                  msg, config, ups, reply_to, fail_at)
         IN  /\ DictGet(reply_seq, reply_to, 0) < MaxReplies
             /\ reply_seq' = next.table
             /\ seq_log' = LogSeq(seq_log, reply_to, next.value)
             /\ calls' = st.calls
             /\ sent' = [msg |-> msg, result |-> SendCaught(st)]
             /\ posts' = IF reply_to = <<>> THEN posts
                         ELSE DictSet(posts, reply_to,
                                      DictGet(posts, reply_to, <<>>)
                                        \o SeqsOf(st.calls, reply_to))
    /\ UNCHANGED <<envVars, lifeVars, inVars>>

\* Outbound messages of the bus
MediaPaths ==
    { <<" ", "HTTPS://", "a">>,      \* a URL
      <<"/tmp/", "a", ".PNG">>,      \* an image file
      <<"/tmp/", "a", ".txt">>,      \* a file of no QQ file type
      <<"/tmp/", "gone", ".png">>,   \* no such file
      <<" ">> }                      \* a blank path

MediaLists == UNION {[1..n -> MediaPaths] : n \in 0..MaxMedia}

MessageIds ==
    { [is_str |-> FALSE, s |-> <<>>],      \* no message_id
      [is_str |-> FALSE, s |-> <<"7">>],   \* not a string: the number 7
      [is_str |-> TRUE, s |-> <<" ">>],
      [is_str |-> TRUE, s |-> <<"m1">>],
      [is_str |-> TRUE, s |-> <<"m2">>] }

Messages ==
    [content : {<<" ">>, <<" ", "hi">>}, media : MediaLists,
     message_id : MessageIds]

\* the media items of msg the upload command is run for
Uploadable(msg) ==
    {i \in 1..Len(msg.media) :
       LET p == Strip(msg.media[i])
       IN  p # <<>> /\ ~IsUrl(p) /\ p \in Files /\ FileType(PathSuffix(p)) # 0}

\* The first send() of a run carries any message.
SendFirst ==
    /\ sent = NotSent
    /\ \E msg \in Messages :
         \E ups \in SUBSET Uploadable(msg),
            fail_at \in 0..(2 * Len(msg.media) + 1) :
           Send(msg, ups, fail_at)

\* Later send() calls carry a text, with or without one URL, as a reply
\* or not, and their platform calls succeed.
FollowUps ==
    [content : {<<"ok">>}, media : {<<>>, << <<"http://", "b">> >>},
     message_id : MessageIds \ {[is_str |-> TRUE, s |-> <<" ">>]}]

SendNext ==
    /\ sent # NotSent
    /\ \E msg \in FollowUps : Send(msg, {}, 0)

StartOnce == Start /\ started \in {"none", "no sdk", "no credentials"}

NextSend == StartOnce \/ SendFirst \/ SendNext

SpecSend == Init /\ [][NextSend]_vars

-----------------------------------------------------------------------------
(* Redelivery across the capacity of the dedup buffer.  The platform issues
   ids 1, 2, ...; an event carries the next new id, or repeats the oldest or
   the newest id still in the buffer, or an id the buffer has dropped.
   First deliveries here carry text, so each of them reaches the bus. *)

Evicted == (1..issued) \ Range(processed_ids)

DedupIds ==
    {issued + 1} \cup Evicted
      \cup (IF processed_ids = <<>> THEN {}
            ELSE {Head(processed_ids), processed_ids[Len(processed_ids)]})

Redeliver ==
    \E id \in DedupIds, bus_ok \in BOOLEAN :
      /\ Len(forwarded) < maxlen + MaxExtra
      /\ issued' = IF id > issued THEN id ELSE issued
      /\ OnMessage(Event(id, <<" ", "a">>, <<>>, "no"), <<>>, bus_ok)
      /\ UNCHANGED <<envVars, lifeVars, sendVars>>

NextDedup == Redeliver

SpecDedup == InitConfigured /\ [][NextDedup]_vars

-----------------------------------------------------------------------------
(* Claims about the dedup buffer *)

\* C1 as stated: whatever lies in between, no id reaches the bus twice.
C1_NeverForwardedTwice == Cardinality(Range(forwarded)) = Len(forwarded)

\* C1, amended: an event whose id is still in the dedup buffer is not
\* forwarded to the bus; no step appends to the forwarded ids an id the
\* buffer held before the step.
C1_BufferedIdNotForwarded ==
    [][\A id \in Range(processed_ids) : forwarded' # Append(forwarded, id)]_vars

\* a redelivered id was dropped after the buffer had filled and evicted
C1_Witness ==
    /\ handled.outcome = "duplicate"
    /\ handled.id \in Range(forwarded)
    /\ issued > maxlen

\* C10: the dedup buffer never holds more than 1000 ids nor an id twice,
\* and a new id arriving at a full buffer evicts exactly the oldest id,
\* the others keeping their order.
C10_BoundedFifo ==
    /\ [](/\ Len(processed_ids) <= 1000
          /\ Cardinality(Range(processed_ids)) = Len(processed_ids))
    /\ [][(Len(processed_ids) = 1000 /\ processed_ids' # processed_ids)
            => /\ Len(processed_ids') = 1000
               /\ \A i \in 1..999 : processed_ids'[i] = processed_ids[i + 1]
               /\ processed_ids'[1000] \notin Range(processed_ids)]_vars

\* the buffer is full and its first ids have been evicted
C10_Witness ==
    /\ Len(processed_ids) = 1000
    /\ Head(processed_ids) = 3
    /\ processed_ids[1000] = 1002

-----------------------------------------------------------------------------
(* Claims about the reconnect loop *)

InLoop(l) == l.pc \in {"connecting", "sleeping"}

\* C5: while the running flag stays set the loop never gives up: every
\* attempt that ends, failed or not, is followed by one 5-second wait and
\* every wait by one new attempt, so that N failed attempts have produced
\* N waits; and _run_bot does not return.
C5_ReconnectsWhileRunning ==
    /\ [](~stopped.called =>
            \A t \in 1..Len(loops) :
              /\ InLoop(loops[t])
              /\ loops[t].failures <= loops[t].waits
              /\ loops[t].attempts =
                   loops[t].waits + (IF loops[t].pc = "connecting" THEN 1 ELSE 0))
    /\ [][\A t \in 1..Len(loops) :
            running =>
              /\ (loops[t].pc = "connecting" /\ loops'[t] # loops[t])
                   => /\ loops'[t].pc = "sleeping"
                      /\ loops'[t].waits = loops[t].waits + 1
                      /\ loops'[t].attempts = loops[t].attempts
              /\ (loops[t].pc = "sleeping" /\ loops'[t] # loops[t])
                   => /\ loops'[t].pc = "connecting"
                      /\ loops'[t].attempts = loops[t].attempts + 1
                      /\ loops'[t].waits = loops[t].waits]_vars

\* two failed attempts in a row, two waits, and the third attempt under way
C5_Witness ==
    /\ running /\ ~stopped.called
    /\ \E t \in 1..Len(loops) :
         loops[t] = Loop("connecting", 3, 2, 2)

\* C6: once stop() has cleared the flag no loop starts a connection
\* attempt, and (the attempt or wait in flight returning) every _run_bot
\* returns, unless a later start() sets the flag again.
C6_StopEndsLoop ==
    /\ [][(~running /\ ~running') =>
            \A t \in 1..Len(loops) : loops'[t].attempts = loops[t].attempts]_vars
    /\ (stopped.called /\ ~running)
         ~> (running \/ \A t \in 1..Len(loops) : loops[t].pc = "returned")

\* stop() came during a wait of one loop and during an attempt of another,
\* and both have returned
C6_Witness ==
    /\ stopped.called /\ ~running
    /\ Len(loops) = 2
    /\ loops[1].pc = "returned" /\ loops[1].attempts = loops[1].waits
    /\ loops[2].pc = "returned" /\ loops[2].attempts = loops[2].waits + 1

-----------------------------------------------------------------------------
(* Claims about send *)

\* the calls the latest send() made for media item i, in call order
ItemCalls(i) == SelectSeq(calls, LAMBDA c : c.item = i)

\* no platform call made for an earlier media item has raised
Reached(i) == \A k \in 1..Len(calls) : calls[k].item \in 1..(i - 1) => ~calls[k].raised

\* the latest send() got as far as its media loop
Dispatched == sent.result \notin {"none", "no client", "nothing to send"}

NoUploadCommand == Strip(config.media_upload_command) = <<>>

IsFallbackText(c) ==
    /\ c.api = "post_c2c_message"
    /\ c.msg_type = 0
    /\ c.content \in {FallbackNoUrl, FallbackUnsupported}

\* C2 as stated: the msg_seq values of the posts replying to one message id
\* are strictly increasing in call order, over all send() calls.
C2_SeqStrictlyIncreasing ==
    \A id \in DOMAIN posts :
      \A i, j \in 1..Len(posts[id]) :
        i < j => posts[id][i] < posts[id][j]

\* the paths of the model that are not blank and are no URL
LocalPaths ==
    { <<"/tmp/", "a", ".PNG">>, <<"/tmp/", "a", ".txt">>,
      <<"/tmp/", "gone", ".png">> }

\* C3 as stated, and even when no platform call fails: with no upload
\* command, every local media item gets exactly one fallback text and no
\* media post, and send() returns.
C3_EveryLocalPathFallsBack ==
    (Dispatched /\ NoUploadCommand /\ \A k \in 1..Len(calls) : ~calls[k].raised) =>
      /\ sent.result = "returned"
      /\ \A i \in 1..Len(sent.msg.media) :
           sent.msg.media[i] \in LocalPaths =>
             /\ Len(ItemCalls(i)) = 1
             /\ IsFallbackText(ItemCalls(i)[1])

\* C3, amended: with no upload command, every media item that names an
\* existing local file and is reached (no platform call of this send has
\* raised before it) gets exactly one fallback text post and no
\* post_c2c_file, media post or upload; and send() returns.
C3_ExistingFileFallsBack ==
    (Dispatched /\ NoUploadCommand) =>
      /\ sent.result = "returned"
      /\ \A i \in 1..Len(sent.msg.media) :
           (sent.msg.media[i] \in Files /\ Reached(i)) =>
             /\ Len(ItemCalls(i)) = 1
             /\ IsFallbackText(ItemCalls(i)[1])

\* two local files sent with a blank upload command: two fallback texts
C3_Witness ==
    /\ Dispatched /\ config.media_upload_command = <<" ">>
    /\ sent.msg.media = << <<"/tmp/", "a", ".PNG">>, <<"/tmp/", "a", ".txt">> >>
    /\ Len(calls) >= 2
    /\ calls[1].content = FallbackNoUrl /\ calls[1].item = 1
    /\ calls[2].content = FallbackUnsupported /\ calls[2].item = 2

\* the http(s) URLs among the paths of the model, with what strip() leaves
UrlPaths == { <<" ", "HTTPS://", "a">>, <<"http://", "b">> }

Stripped(p) == IF p = <<" ", "HTTPS://", "a">> THEN <<"HTTPS://", "a">> ELSE p

\* C4: the upload command is never run for a media item that is an http(s)
\* URL; the item, once reached, is passed to post_c2c_file with that URL
\* and, post_c2c_file returning, posted as a media message.
C4_UrlSentWithoutUpload ==
    Dispatched =>
      \A i \in 1..Len(sent.msg.media) :
        sent.msg.media[i] \in UrlPaths =>
          LET cs == ItemCalls(i)
          IN  /\ \A k \in 1..Len(cs) : cs[k].api # "upload_command"
              /\ Reached(i) =>
                   /\ Len(cs) >= 1
                   /\ cs[1].api = "post_c2c_file"
                   /\ cs[1].url = Stripped(sent.msg.media[i])
                   /\ Len(cs) = IF cs[1].raised THEN 1 ELSE 2
                   /\ ~cs[1].raised =>
                        /\ cs[2].api = "post_c2c_message"
                        /\ cs[2].msg_type = 7
                        /\ cs[2].url = Stripped(sent.msg.media[i])

\* a URL sent after an uploaded file, with an upload command configured
C4_Witness ==
    /\ Dispatched /\ config.media_upload_command = <<"upload">>
    /\ sent.msg.media = << <<"/tmp/", "a", ".PNG">>, <<" ", "HTTPS://", "a">> >>
    /\ Len(calls) >= 5
    /\ calls[1].api = "upload_command" /\ calls[1].item = 1
    /\ calls[4].api = "post_c2c_file" /\ calls[4].item = 2
    /\ calls[5].msg_type = 7 /\ calls[5].item = 2 /\ ~calls[5].raised

IsContentPost(c) ==
    /\ c.api = "post_c2c_message"
    /\ c.msg_type = 0
    /\ c.content = Strip(sent.msg.content)

\* C7: the post carrying msg.content is the last platform call of its
\* send(), the media items having been processed before it, in order.
C7_MediaBeforeText ==
    /\ \A k \in 1..Len(calls) : IsContentPost(calls[k]) => k = Len(calls)
    /\ \A j, k \in 1..Len(calls) :
         (j < k /\ ~IsContentPost(calls[k])) => calls[j].item <= calls[k].item

\* a URL, a fallback text and then the content
C7_Witness ==
    /\ Len(calls) = 4
    /\ calls[1].item = 1 /\ calls[2].item = 1
    /\ calls[3].item = 2 /\ IsFallbackText(calls[3])
    /\ IsContentPost(calls[4]) /\ calls[4].content = <<"hi">>

-----------------------------------------------------------------------------
(* The adapter in service: start, stop, send and inbound events, each with
   the failures of the SDK, the network, the upload command and the bus.
   The configuration is complete; messages and events are a few shapes
   that reach every failure. *)

SomeMessages ==
    [content : {<<" ", "hi">>},
     media : {<<>>, << <<"/tmp/", "a", ".PNG">>, <<" ", "HTTPS://", "a">> >>},
     message_id : {[is_str |-> FALSE, s |-> <<>>]}]

SendSome ==
    \E msg \in SomeMessages :
      \E ups \in SUBSET Uploadable(msg),
         fail_at \in 0..(2 * Len(msg.media) + 1) :
        Send(msg, ups, fail_at)

SomeEvents(id) ==
    { Event(id, <<" ", "a">>, <<>>, "no"),
      Event(id, <<" ">>, <<>>, "no"),
      Event(id, <<>>, <<Attachment(<<"u", " ">>, TRUE, <<"f", ".png">>)>>, "no"),
      Event(id, <<" ", "a">>, <<>>, "id"),
      Event(id, <<" ", "a">>, <<>>, "author") }

Fates(atts) == [1..Len(atts) -> {"ok", "fail", "raise"}]

DeliverSome ==
    \E id \in 1..(issued + 1) :
      \E ev \in SomeEvents(id) :
        \E outs \in Fates(ev.attachments), bus_ok \in BOOLEAN :
          /\ id <= MaxIds
          /\ issued' = IF id > issued /\ ev.malformed # "id" THEN id ELSE issued
          /\ OnMessage(ev, outs, bus_ok)
          /\ UNCHANGED <<envVars, lifeVars, sendVars>>

NextCalls == Start \/ Stop \/ SendSome \/ DeliverSome

SpecCalls == InitConfigured /\ [][NextCalls]_vars

\* C8: send(), _on_message() and stop() return normally whatever fails
\* inside them: no exception of a platform call, a download, the upload
\* command or the bus handoff reaches their caller.
C8_NothingEscapes ==
    /\ sent.result # "raised"
    /\ ~handled.escaped
    /\ ~stopped.escaped

\* the upload command printed no URL and post_c2c_file raised in the latest
\* send(), a download and the bus handoff failed in the latest _on_message,
\* close() raised in the latest stop()
C8_Witness ==
    /\ sent.result = "returned"
    /\ Len(calls) = 3
    /\ calls[1].api = "upload_command" /\ IsFallbackText(calls[2])
    /\ calls[3].api = "post_c2c_file" /\ calls[3].raised
    /\ handled.outcome = "handoff failed"
    /\ handled.content = Placeholder(NoAttachmentName)
    /\ stopped.close_failed

\* C9: with the SDK, the app_id or the secret missing, start() leaves the
\* flag clear, creates no client and makes no connection attempt, and a
\* send() after it makes no platform call.
C9_StartFailsFast ==
    (~qq_available \/ config.app_id = <<>> \/ config.secret = <<>>) =>
      /\ ~running /\ ~client /\ loops = <<>>
      /\ started \in {"none", "no sdk", "no credentials"}
      /\ calls = <<>> /\ reply_seq = EmptyDict
      /\ sent.result \in {"none", "no client"}

\* start() found no secret, and a send() with a URL came after it
C9_Witness ==
    /\ started = "no credentials" /\ qq_available
    /\ config.app_id # <<>> /\ config.secret = <<>>
    /\ sent.result = "no client"
    /\ sent.msg.media = << <<" ", "HTTPS://", "a">> >>

-----------------------------------------------------------------------------
(* _on_message as its awaits split it.  A handler runs without interruption
   from one await to the next: from its entry to the first attachment
   download it awaits (line 274), through the downloads to the bus handoff
   (line 286), and from there to its return.  The downloads of one handler
   touch no shared state, so they are one step here.

   Ids up to MaxIds arrive in every shape; later ids arrive as blank
   events, which are recorded and dropped as empty without any await.
   They come in bursts long enough to push older ids out of the dedup
   buffer; a burst is one step, no handler being resumed inside it. *)

\* handlers suspended at one time
MaxInflight == 2

\* a handler that records the id only when it hands the event to the bus
RecordsAtHandoff(stage) == stage = "handoff"

\* line 256 follows the membership test of line 254 with no await between
RecordsAt(stage) == stage = "entry"

Recorded(buf, id, stage) ==
    IF RecordsAt(stage) THEN DequeAppend(buf, id) ELSE buf

\* a suspended handler: its event, the await it is suspended at
\* ("download" or "handoff") and the arguments of its _handle_message call
Handler(ev, outs, pc, content, media) ==
    [ev |-> ev, outs |-> outs, pc |-> pc, content |-> content,
     media |-> media]

\* does the attachment loop await a download for this event (line 272)
Awaits(ev) ==
    \E i \in 1..Len(ev.attachments) :
      ev.attachments[i].url_is_str /\ Strip(ev.attachments[i].url) # <<>>

RemoveAt(q, k) == [i \in 1..(Len(q) - 1) |-> IF i < k THEN q[i] ELSE q[i + 1]]

\* lines 282-286: a handler past its downloads drops an empty event, or
\* calls self._handle_message and is suspended in it.  buf is the dedup
\* buffer, k the handler's place in the in-flight handlers (0: it has not
\* been suspended yet).
ToHandoff(ev, outs, buf, k) ==
    LET n == Normalize(ev, outs)
    IN  IF n.parts = <<>> /\ n.media = <<>>
        THEN /\ handled' = Seen([NoCall EXCEPT !.id = ev.id,
                                               !.outcome = "empty"], ev, outs)
             /\ processed_ids' = buf
             /\ inflight' = IF k = 0 THEN inflight ELSE RemoveAt(inflight, k)
             /\ UNCHANGED forwarded
        ELSE LET h == Handler(ev, outs, "handoff", ContentOut(n.parts),
                              n.media)
             IN  /\ forwarded' = Append(forwarded, ev.id)
                 /\ processed_ids' = Recorded(buf, ev.id, "handoff")
                 /\ inflight' = IF k = 0 THEN Append(inflight, h)
                                ELSE [inflight EXCEPT ![k] = h]
                 /\ UNCHANGED handled

\* _on_message(data) from its entry to its first await, lines 251-274
Enter(ev, outs) ==
    IF ev.malformed = "id"
    THEN /\ handled' = Seen(OnMessageCaught(0, "malformed"), ev, <<>>)
         /\ UNCHANGED <<processed_ids, forwarded, inflight>>
    ELSE IF IsDuplicate(processed_ids, ev.id)
    THEN /\ handled' = Seen([NoCall EXCEPT !.id = ev.id,
                                           !.outcome = "duplicate"], ev, <<>>)
         /\ UNCHANGED <<processed_ids, forwarded, inflight>>
    ELSE IF ev.malformed = "author"
    THEN /\ handled' = Seen(OnMessageCaught(ev.id, "malformed"), ev, <<>>)
         /\ processed_ids' = Recorded(processed_ids, ev.id, "entry")
         /\ UNCHANGED <<forwarded, inflight>>
    ELSE IF Awaits(ev)
    THEN /\ inflight' = Append(inflight,
                               Handler(ev, <<>>, "download", <<>>, <<>>))
         /\ processed_ids' = Recorded(processed_ids, ev.id, "entry")
         /\ UNCHANGED <<forwarded, handled>>
    ELSE ToHandoff(ev, outs, Recorded(processed_ids, ev.id, "entry"), 0)

\* the SDK delivers an event whose id is one of the first MaxIds; outs are
\* the fates of its attachments when the handler awaits none of them
Arrive ==
    \E id \in 1..MaxIds :
      \E ev \in SomeEvents(id) :
        \E outs \in (IF Awaits(ev) THEN {<<>>} ELSE Fates(ev.attachments)) :
          /\ id <= issued + 1
          /\ Len(inflight) < MaxInflight
          /\ issued' = IF id > issued /\ ev.malformed # "id" THEN id ELSE issued
          /\ Enter(ev, outs)
          /\ UNCHANGED <<envVars, lifeVars, sendVars>>

\* the dedup buffer after n blank events with the new ids first, first + 1,
\* ...: each passes the membership test and is recorded at its entry, so
\* the buffer ends as the last maxlen ids of the old ones and the new ones
RecordAll(buf, first, n) ==
    LET all == buf \o [i \in 1..n |-> first + i - 1]
    IN  IF ~RecordsAt("entry") THEN buf
        ELSE IF Len(all) > maxlen
        THEN SubSeq(all, Len(all) - maxlen + 1, Len(all))
        ELSE all

\* the SDK delivers a burst of blank events with new ids, as many as the
\* buffer holds
Fill ==
    \E n \in {maxlen} :
      /\ issued >= MaxIds
      /\ issued < maxlen
      /\ issued' = issued + n
      /\ processed_ids' = RecordAll(processed_ids, issued + 1, n)
      /\ handled' = Seen([NoCall EXCEPT !.id = issued + n,
                                        !.outcome = "empty"],
                         Event(issued + n, <<" ">>, <<>>, "no"), <<>>)
      /\ UNCHANGED <<envVars, lifeVars, sendVars, forwarded, inflight>>

\* the downloads of a suspended handler finish, each with its own fate
Downloaded ==
    \E k \in DOMAIN inflight :
      \E outs \in Fates(inflight[k].ev.attachments) :
        /\ inflight[k].pc = "download"
        /\ ToHandoff(inflight[k].ev, outs, processed_ids, k)
        /\ UNCHANGED <<envVars, lifeVars, sendVars, issued>>

\* self._handle_message returns or raises (lines 286-294)
HandoffReturns ==
    \E k \in DOMAIN inflight, bus_ok \in BOOLEAN :
      LET h == inflight[k]
      IN  /\ h.pc = "handoff"
          /\ handled' =
               Seen([(IF bus_ok
                      THEN [NoCall EXCEPT !.id = h.ev.id,
                                          !.outcome = "forwarded"]
                      ELSE OnMessageCaught(h.ev.id, "handoff failed"))
                       EXCEPT !.content = h.content, !.media = h.media],
                    h.ev, h.outs)
          /\ inflight' = RemoveAt(inflight, k)
          /\ UNCHANGED <<envVars, lifeVars, sendVars, processed_ids,
                         forwarded, issued>>

NextConcurrent == Arrive \/ Fill \/ Downloaded \/ HandoffReturns

SpecConcurrent == InitConfigured /\ [][NextConcurrent]_vars

\* how many handlers for id have passed the membership test and forward
\* the event: those suspended in a download and those that called the bus
Passed(id) ==
    Cardinality({k \in DOMAIN inflight :
                   inflight[k].ev.id = id /\ inflight[k].pc = "download"})
      + Cardinality({k \in DOMAIN forwarded : forwarded[k] = id})

\* C11 as stated: of the handlers for one event id that run at the same
\* time at most one gets past the membership test, so no two suspended
\* handlers hold the same id.
C11_OneOfConcurrentForwards ==
    \A j, k \in DOMAIN inflight : j # k => inflight[j].ev.id # inflight[k].ev.id

\* C11, amended: a handler gets past the membership test only for an id the
\* dedup buffer does not hold, and the id is in the buffer when the handler
\* first suspends; so of two handlers for one id that run at the same time
\* at most one forwards the event as long as the id stays in the buffer.
C11_OnePassesWhileBuffered ==
    [][\A id \in 1..MaxIds :
         Passed(id)' > Passed(id)
           => /\ id \notin Range(processed_ids)
              /\ id \in Range(processed_ids')]_vars

\* a delivery was dropped as a duplicate while the handler of the first
\* delivery of its id was still suspended in a download
C11_Witness ==
    /\ handled.outcome = "duplicate"
    /\ \E k \in DOMAIN inflight :
         inflight[k].ev.id = handled.id /\ inflight[k].pc = "download"

-----------------------------------------------------------------------------
(* Claims about the reply sequence table *)

MaxOf(S) == CHOOSE m \in S : \A x \in S : x <= m

\* C12 as stated: once a send() has completed, the table entry of a message
\* id is the largest msg_seq any platform call replying to that id carried.
C12_TableHoldsLastUsed ==
    \A id \in DOMAIN posts :
      posts[id] # <<>> => reply_seq[id] = MaxOf(Range(posts[id]))

\* the message posts of the latest send(), in call order
MessagePosts == SelectSeq(calls, LAMBDA c : c.api = "post_c2c_message")

\* C13: the message posts of one send() replying to m carry msg_id m and
\* the msg_seq values s, s + 1, s + 2, ... in the order they are posted, s
\* being the value _next_msg_seq returned to that send (and left in the
\* table); a post_c2c_file call carries neither.
C13_ConsecutiveWithinSend ==
    LET m == sent.msg.message_id.s
    IN  (Dispatched /\ sent.msg.message_id.is_str /\ Strip(m) # <<>>) =>
          /\ \A k \in 1..Len(MessagePosts) :
               /\ MessagePosts[k].msg_id = m
               /\ MessagePosts[k].msg_seq = reply_seq[m] + k - 1
          /\ \A k \in 1..Len(calls) :
               calls[k].api # "post_c2c_message"
                 => calls[k].msg_id = <<>> /\ calls[k].msg_seq = 0

\* the second send() replying to m1 posted a media message and the text,
\* with msg_seq 2 and 3
C13_Witness ==
    /\ Dispatched
    /\ sent.msg.message_id.s = <<"m1">>
    /\ reply_seq[<<"m1">>] = 2
    /\ Len(MessagePosts) = 2
    /\ MessagePosts[1].msg_type = 7 /\ MessagePosts[1].msg_seq = 2
    /\ MessagePosts[2].msg_type = 0 /\ MessagePosts[2].msg_seq = 3

\* C14: the k-th _next_msg_seq call for a message id returns k, whatever
\* calls for other ids come in between, and the table entry of an id counts
\* the calls made for it; a call with no id returns None (0 here) and adds
\* nothing to the table.
C14_PerIdCounter ==
    /\ \A id \in DOMAIN seq_log :
         IF id = <<>> THEN seq_log[id] = <<0>>
         ELSE \A k \in 1..Len(seq_log[id]) : seq_log[id][k] = k
    /\ DOMAIN reply_seq = DOMAIN seq_log \ {<<>>}
    /\ \A id \in DOMAIN reply_seq : reply_seq[id] = Len(seq_log[id])

\* _next_msg_seq was called twice for m1, the second time after a call for
\* m2, and was called with no id
C14_Witness ==
    /\ DOMAIN seq_log = {<<>>, <<"m1">>, <<"m2">>}
    /\ seq_log[<<"m1">>] = <<1, 2>>
    /\ seq_log[<<"m2">>] = <<1>>
    /\ sent.msg.message_id.s = <<"m1">>

\* a message whose metadata names no message to reply to
NonReply(msg) == ~msg.message_id.is_str \/ Strip(msg.message_id.s) = <<>>

\* C15: a send() whose metadata carries no message_id, or one that is not
\* a string or is blank, is no reply: none of its platform calls carries
\* msg_id or msg_seq, and it leaves the table as it was.
C15_NonReplyLeavesTable ==
    /\ [](NonReply(sent.msg) =>
            \A k \in 1..Len(calls) :
              calls[k].msg_id = <<>> /\ calls[k].msg_seq = 0)
    /\ [][NonReply(sent'.msg) => reply_seq' = reply_seq]_vars

\* after replies to m1 and m2, a send() with a number for its message_id
\* made a media post and a text post
C15_Witness ==
    /\ Dispatched
    /\ Len(MessagePosts) = 2
    /\ sent.msg.message_id = [is_str |-> FALSE, s |-> <<"7">>]
    /\ DOMAIN reply_seq = {<<"m1">>, <<"m2">>}

-----------------------------------------------------------------------------
(* The reply sequence table over stop() and a later start(): the channel is
   started, stopped and started again while replies and other messages go
   out. *)

SendFollowUp == \E msg \in FollowUps : Send(msg, {}, 0)

NextRestart == Start \/ Stop \/ SendFollowUp

SpecRestart == InitConfigured /\ [][NextRestart]_vars

\* C16: no step of any operation removes an entry of the table or lowers
\* its value, stop() and a later start() included.
C16_TableOnlyGrows ==
    [][\A id \in DOMAIN reply_seq :
         id \in DOMAIN reply_seq' /\ reply_seq'[id] >= reply_seq[id]]_vars

\* the channel has been stopped and started again, and the table holds the
\* entries of two replies to m1 and one to m2
C16_Witness ==
    /\ stopped.called /\ running /\ Len(loops) = 2
    /\ DOMAIN reply_seq = {<<"m1">>, <<"m2">>}
    /\ reply_seq[<<"m1">>] = 2
    /\ reply_seq[<<"m2">>] = 1

-----------------------------------------------------------------------------
(* Inbound events of every shape.  The first event the SDK delivers has any
   content and any attachments, each with its own fate; later events are the
   few shapes of SomeEvents, with a new id or with one delivered before. *)

\* attachments of one event
MaxAtts == 2

\* data.content: missing, blank, or a text with blanks around it
Contents == {<<>>, <<" ">>, <<" ", "a", " ">>}

\* att.url and att.filename: a url with a file name, a url without one, a
\* blank url, and no url at all (None)
Attachments ==
    { Attachment(<<"u", " ">>, TRUE, <<"f", ".png">>),
      Attachment(<<"u">>, TRUE, <<>>),
      Attachment(<<" ">>, TRUE, <<"f", ".png">>),
      Attachment(<<>>, FALSE, <<"f", ".png">>) }

AttachmentLists == UNION {[1..n -> Attachments] : n \in 0..MaxAtts}

Events(id) ==
    {Event(id, c, atts, "no") : c \in Contents, atts \in AttachmentLists}
      \cup {Event(id, <<" ", "a", " ">>, <<>>, m) : m \in {"id", "author"}}

DeliverFirst ==
    /\ handled = NoCall
    /\ \E ev \in Events(1) :
         \E outs \in Fates(ev.attachments), bus_ok \in BOOLEAN :
           /\ issued' = IF ev.malformed # "id" THEN 1 ELSE issued
           /\ OnMessage(ev, outs, bus_ok)
           /\ UNCHANGED <<envVars, lifeVars, sendVars>>

DeliverNext == handled # NoCall /\ DeliverSome

NextInbound == DeliverFirst \/ DeliverNext

SpecInbound == InitConfigured /\ [][NextInbound]_vars

-----------------------------------------------------------------------------
(* Claims about inbound normalization *)

\* the latest _on_message call passed its event to self._handle_message
Forwarded == handled.outcome \in {"forwarded", "handoff failed"}

\* the placeholders in the forwarded content, in their order
Placeholders ==
    SelectSeq(handled.content, LAMBDA t : t \notin {" ", "a", "\n"})

\* the text of the latest event comes first in the forwarded content
OwnTextFirst ==
    LET own == Strip(handled.ev.content)
    IN  own # <<>> =>
          /\ SubSeq(handled.content, 1, Len(own)) = own
          /\ \A k \in 1..Len(own) : own[k] \notin Range(Placeholders)

\* the attachment numbers 1..n of the latest event that satisfy Test
Numbers(Test(_)) ==
    SelectSeq([i \in 1..Len(handled.ev.attachments) |-> i], Test)

\* the placeholder of attachment i of the latest event: its local file name
\* when it was downloaded, "download failed" otherwise
PlaceholderOf(i) ==
    IF handled.outs[i] = "ok"
    THEN Placeholder(DownloadPath(handled.ev.attachments[i].filename,
                                  handled.ev.id, i - 1).name)[1]
    ELSE "[attachment: download failed]"

HasUrl(i) ==
    /\ handled.ev.attachments[i].url_is_str
    /\ Strip(handled.ev.attachments[i].url) # <<>>

WasDownloaded(i) == HasUrl(i) /\ handled.outs[i] = "ok"

\* the forwarded media are the local files of the downloaded attachments,
\* in attachment order
MediaAreDownloads ==
    LET got == Numbers(WasDownloaded)
    IN  /\ Len(handled.media) = Len(got)
        /\ \A k \in 1..Len(got) :
             handled.media[k] =
               DownloadPath(handled.ev.attachments[got[k]].filename,
                            handled.ev.id, got[k] - 1)

\* C17 as stated: every attachment of a forwarded event has exactly one
\* placeholder in the forwarded text, after the event's own text and in
\* attachment order, and the forwarded media are the downloaded files.
C17_EveryAttachmentHasPlaceholder ==
    Forwarded =>
      /\ Len(Placeholders) = Len(handled.ev.attachments)
      /\ \A i \in 1..Len(Placeholders) : Placeholders[i] = PlaceholderOf(i)
      /\ OwnTextFirst
      /\ MediaAreDownloads

\* an attachment the handler downloads or fails on: its url is a non-blank
\* string, or reading it raises
Attempted(i) == HasUrl(i) \/ handled.outs[i] = "raise"

\* C17, amended: every attachment of a forwarded event whose url is a
\* non-blank string, or whose handling raises, has exactly one placeholder
\* in the forwarded text, after the event's own text and in attachment
\* order; an attachment without such a url has none.  The forwarded media
\* are the downloaded files in attachment order.
C17_AttemptedAttachmentHasPlaceholder ==
    Forwarded =>
      LET tried == Numbers(Attempted)
      IN  /\ Len(Placeholders) = Len(tried)
          /\ \A k \in 1..Len(tried) : Placeholders[k] = PlaceholderOf(tried[k])
          /\ OwnTextFirst
          /\ MediaAreDownloads

\* an event with text, an attachment without url and a downloaded one was
\* forwarded, with the one placeholder of the second attachment
C17_Witness ==
    /\ handled.outcome = "forwarded"
    /\ Strip(handled.ev.content) = <<"a">>
    /\ Len(handled.ev.attachments) = 2
    /\ ~HasUrl(1) /\ WasDownloaded(2)
    /\ handled.content = <<"a", "\n", "[attachment: qq_1_1.bin]">>
    /\ Len(handled.media) = 1

\* C18: the id of an event is in the dedup buffer once its handler has got
\* past the membership test, also when the event is dropped as empty, when
\* reading its author raises and when the bus handoff raises; no step
\* takes an id out of the buffer other than a full buffer dropping its
\* oldest id; and no step forwards an id the buffer holds.
C18_RecordedWhateverFollows ==
    /\ [](handled.outcome \in {"empty", "forwarded", "handoff failed"}
            \/ (handled.outcome = "malformed" /\ handled.id # 0)
          => handled.id \in Range(processed_ids))
    /\ [][\A id \in Range(processed_ids) :
            /\ id \in Range(processed_ids')
                 \/ (Len(processed_ids) = maxlen /\ id = Head(processed_ids))
            /\ forwarded' # Append(forwarded, id)]_vars
    /\ [][\A id \in 1..MaxIds :
            forwarded' = Append(forwarded, id)
              => id \in Range(processed_ids')]_vars

\* a redelivered id was dropped as a duplicate though its first delivery
\* never reached the bus: it was dropped as empty, or reading its author
\* raised
C18_Witness ==
    /\ handled.outcome = "duplicate"
    /\ handled.id \in Range(processed_ids)
    /\ handled.id \notin Range(forwarded)

-----------------------------------------------------------------------------
(* Claims about failing and empty sends *)

\* a platform call of the latest send() raised
Raised == \E k \in 1..Len(calls) : calls[k].raised

\* C19: a platform call that raises is the last thing its send() does: no
\* platform call and no upload command follows it, so the media items and
\* the text after it are not sent; and the table keeps the value the send
\* took from _next_msg_seq.
C19_NothingAfterRaise ==
    /\ \A k \in 1..Len(calls) : calls[k].raised => k = Len(calls)
    /\ (Raised /\ ~NonReply(sent.msg)) =>
         LET m == sent.msg.message_id.s
         IN  /\ m \in DOMAIN reply_seq
             /\ reply_seq[m] = seq_log[m][Len(seq_log[m])]
             /\ reply_seq[m] >= 1

\* the post_c2c_file call for the first of two URLs raised in a send()
\* with text that replied to m1: it is the only call, and m1 keeps entry 1
C19_Witness ==
    /\ Len(sent.msg.media) = 2
    /\ IsUrl(sent.msg.media[1]) /\ IsUrl(sent.msg.media[2])
    /\ Strip(sent.msg.content) # <<>>
    /\ sent.msg.message_id.s = <<"m1">>
    /\ Len(calls) = 1
    /\ calls[1].api = "post_c2c_file" /\ calls[1].raised
    /\ reply_seq[<<"m1">>] = 1

\* the latest send() had nothing to do: there was no client, or its content
\* was blank and it had no media
NoOp == sent.result \in {"no client", "nothing to send"}

\* C20: a send() without a client, or with blank content and no media, ends
\* as a no-op: it makes no platform call, runs no upload command and leaves
\* the table as it was, whatever its message_id.
C20_NoOpSend ==
    /\ []((sent.result # "none"
            /\ (~client \/ (Strip(sent.msg.content) = <<>>
                              /\ sent.msg.media = <<>>)))
          => NoOp)
    /\ [](NoOp => calls = <<>>)
    /\ [][NoOp' => reply_seq' = reply_seq /\ seq_log' = seq_log
                     /\ posts' = posts]_vars

\* on a started channel a send() with blank content, no media and
\* message_id m1 made no call and added no entry to the table
C20_Witness ==
    /\ client
    /\ sent.result = "nothing to send"
    /\ sent.msg.message_id.s = <<"m1">>
    /\ sent.msg.content = <<" ">>
    /\ calls = <<>>
    /\ reply_seq = EmptyDict

====
